---- MODULE Spec2Model ----
(***************************************************************************)
(* Quantitative CTL evaluation (src/src/ctl_formulae.py).                  *)
(*                                                                         *)
(* The result table formulae_evaluations[state][key], the worklist of the  *)
(* temporal operators and the formula trees are modelled as they are in    *)
(* the source.  Scores are rationals in [-1, 1]; a score v is represented  *)
(* by the integer v * Scale.  The Kripke structure has one variable x with *)
(* 0 <= x <= MaxVal, so a state is the value of x.                         *)
(***************************************************************************)
EXTENDS Integers, Sequences, FiniteSets, TLC

\* ks.stg.variables = {"x": MaxVal}; ks.stg.states = 0..MaxVal
MaxVal == 2
States == 0 .. MaxVal

\* resolution of the score representation: the score v is the integer v * Scale
\* (with MaxVal = 2 the atomic scores are -1, -1/2, 0, 1/2 and 1)
Scale == MaxVal
ScoreRange == (0 - Scale) .. Scale

\* Python's None (the unset sentinel of the table)
None == -1000
\* a raised exception (TypeError, ValueError), as the value of an expression
Err == -2000

VARIABLES
    succs,    \* ks.stg.graph.successors: [States -> SUBSET States]
    fe,       \* formulae_evaluations: [States -> [Keys -> score or None]]
    prog,     \* the driver's calls: a sequence of [node, fresh]
    ip,       \* index of the driver's next call
    snap,     \* the table as it was when the driver made its latest call
    self,     \* the node whose evaluate runs its worklist loop (<<>>: none)
    caller,   \* the AW / EW node whose evaluate called self's (<<>>: none)
    queue,    \* the worklist of self's evaluate
    pc,       \* "idle" (in the driver), "loop" (in a worklist loop), "error";
              \* "parsed", "normal", "listed" while the driver prepares a root
    tree,     \* the formula tree handed to eliminate_negation
    out       \* what eliminate_negation returned (<<>>: not called yet)

vars == <<succs, fe, prog, ip, snap, self, caller, queue, pc, tree, out>>

-----------------------------------------------------------------------------
(* Formula trees.  A node is a tuple whose head is the class name.         *)

Leaf(k)            == <<"Leaf", k>>        \* an already evaluated subformula with key k
AtomicProposition(variable, operator, value) == <<"AtomicProposition", variable, operator, value>>
Negation(f)        == <<"Negation", f>>
Union(l, r)        == <<"Union", l, r>>
Intersection(l, r) == <<"Intersection", l, r>>
Boolean(b)         == <<"Boolean", b>>
Conjunction(l, r)  == <<"Conjunction", l, r>>
Disjunction(l, r)  == <<"Disjunction", l, r>>
AG(f)              == <<"AG", f>>
EG(f)              == <<"EG", f>>
AF(f)              == <<"AF", f>>
EF(f)              == <<"EF", f>>
AX(f)              == <<"AX", f>>
EX(f)              == <<"EX", f>>
AU(l, r)           == <<"AU", l, r>>
EU(l, r)           == <<"EU", l, r>>
AW(l, r)           == <<"AW", l, r>>
EW(l, r)           == <<"EW", l, r>>

Kind(f) == f[1]
AtomicKinds == {"AtomicProposition", "Negation", "Union", "Intersection"}
UnaryKinds  == {"AG", "EG", "AF", "EF", "AX", "EX"}
BinaryKinds == {"Conjunction", "Disjunction", "AU", "EU", "AW", "EW"}

\* str(int) of an f-string
IntStr(n) == IF n < 0 THEN "-" \o ToString(0 - n) ELSE ToString(n)

\* __repr__: the key of a node in the result table
RECURSIVE Repr(_)
Repr(f) ==
    CASE Kind(f) = "Leaf" -> f[2]
      [] Kind(f) = "AtomicProposition" ->
            "(" \o f[2] \o " " \o f[3] \o " " \o IntStr(f[4]) \o ")"
      [] Kind(f) = "Negation" -> "!" \o Repr(f[2])
      [] Kind(f) = "Union" -> "(" \o Repr(f[2]) \o " | " \o Repr(f[3]) \o ")"
      [] Kind(f) = "Intersection" -> "(" \o Repr(f[2]) \o " & " \o Repr(f[3]) \o ")"
      [] Kind(f) = "Boolean" -> IF f[2] THEN "True" ELSE "False"
      [] Kind(f) = "Conjunction" -> "(" \o Repr(f[2]) \o " && " \o Repr(f[3]) \o ")"
      [] Kind(f) = "Disjunction" -> "(" \o Repr(f[2]) \o " || " \o Repr(f[3]) \o ")"
      [] Kind(f) \in {"AG", "EG", "AF", "EF", "AX", "EX"} ->
            Kind(f) \o " (" \o Repr(f[2]) \o ")"
      [] Kind(f) = "AU" -> "A (" \o Repr(f[2]) \o ") U (" \o Repr(f[3]) \o ")"
      [] Kind(f) = "EU" -> "E (" \o Repr(f[2]) \o ") U (" \o Repr(f[3]) \o ")"
      [] Kind(f) = "AW" -> "A (" \o Repr(f[2]) \o ") W (" \o Repr(f[3]) \o ")"
      [] Kind(f) = "EW" -> "E (" \o Repr(f[2]) \o ") W (" \o Repr(f[3]) \o ")"

-----------------------------------------------------------------------------
(* Python's min and max, which raise on an empty list and on a comparison  *)
(* with None.                                                              *)

SetMin(S) == CHOOSE v \in S : \A w \in S : v <= w
SetMax(S) == CHOOSE v \in S : \A w \in S : v >= w

\* a min that is the lowest score on an empty list
ListMinDefault(val) ==
    IF DOMAIN val = {} THEN 0 - Scale
    ELSE IF Cardinality(DOMAIN val) = 1 THEN val[CHOOSE t \in DOMAIN val : TRUE]
    ELSE IF \E t \in DOMAIN val : val[t] = None THEN Err
    ELSE SetMin({val[t] : t \in DOMAIN val})

\* min([val[t] for t in DOMAIN val]): ValueError on an empty list; a one-element list
\* is returned without any comparison; None in a longer list is a TypeError
ListMin(val) ==
    IF DOMAIN val = {} THEN Err
    ELSE IF Cardinality(DOMAIN val) = 1 THEN val[CHOOSE t \in DOMAIN val : TRUE]
    ELSE IF \E t \in DOMAIN val : val[t] = None THEN Err
    ELSE SetMin({val[t] : t \in DOMAIN val})

ListMax(val) ==
    IF DOMAIN val = {} THEN Err
    ELSE IF Cardinality(DOMAIN val) = 1 THEN val[CHOOSE t \in DOMAIN val : TRUE]
    ELSE IF \E t \in DOMAIN val : val[t] = None THEN Err
    ELSE SetMax({val[t] : t \in DOMAIN val})

\* min(a, b) and max(a, b)
Min2(a, b) == IF a = None \/ b = None \/ a = Err \/ b = Err THEN Err
              ELSE IF b < a THEN b ELSE a
Max2(a, b) == IF a = None \/ b = None \/ a = Err \/ b = Err THEN Err
              ELSE IF b > a THEN b ELSE a

\* a comparison that is not strict
LessOrEqual(a, b) == IF a = None \/ b = None \/ a = Err \/ b = Err THEN "E"
                     ELSE IF a <= b THEN "T" ELSE "F"

\* a < b and a > b as "T", "F" or "E" (TypeError)
Less(a, b)    == IF a = None \/ b = None \/ a = Err \/ b = Err THEN "E"
                 ELSE IF a < b THEN "T" ELSE "F"
Greater(a, b) == Less(b, a)

\* a loop body that does not put the predecessors back
NoPredecessors(g, state) == {}

\* a loop body that puts the successors back
SuccessorsBack(g, state) == g[state]

\* ks.stg.graph.predecessors(state)
Predecessors(g, state) == {t \in States : state \in g[t]}

-----------------------------------------------------------------------------
(* Domains of validity.  ks.stg.variables is a sequence of [name, max]; a  *)
(* DoV is a sequence with the set of valid values of each variable.        *)

\* ks.stg.variables of the one-variable model
Variables == <<[name |-> "x", max |-> MaxVal]>>

\* list(max_activities.keys()).index(variable); 0 when it is not a key (ValueError)
VarIndex(vs, variable) ==
    IF \E i \in 1 .. Len(vs) : vs[i].name = variable
    THEN CHOOSE i \in 1 .. Len(vs) : vs[i].name = variable
    ELSE 0

Max(a, b) == IF a >= b THEN a ELSE b
Min(a, b) == IF a <= b THEN a ELSE b

\* the ambient box: [list(range(max_value + 1)) for max_value in variables.values()]
Ambient(vs) == [i \in 1 .. Len(vs) |-> 0 .. vs[i].max]

\* the result of a yield_dov that raised
Raised == [ok |-> FALSE, dov |-> <<>>]

\* yield_dov(dov, max_activities): [ok, dov]
RECURSIVE YieldDov(_, _, _)
YieldDov(f, dov, vs) ==
    CASE Kind(f) = "AtomicProposition" ->
            LET idx == VarIndex(vs, f[2])
                valid == IF f[3] = ">=" THEN Max(f[4], 0) .. vs[idx].max
                         ELSE 0 .. Min(f[4], vs[idx].max)
            IN  IF idx = 0 \/ f[3] \notin {">=", "<="} THEN Raised
                ELSE [ok |-> TRUE, dov |-> [dov EXCEPT ![idx] = dov[idx] \cap valid]]
      [] Kind(f) = "Union" ->
            LET l == YieldDov(f[2], dov, vs)
                r == YieldDov(f[3], dov, vs)
            IN  IF ~l.ok \/ ~r.ok THEN Raised
                ELSE [ok |-> TRUE,
                      dov |-> [i \in 1 .. Len(dov) |-> l.dov[i] \cup r.dov[i]]]
      [] Kind(f) = "Intersection" ->
            LET l == YieldDov(f[2], dov, vs)
                r == YieldDov(f[3], dov, vs)
            IN  IF ~l.ok \/ ~r.ok THEN Raised
                ELSE [ok |-> TRUE,
                      dov |-> [i \in 1 .. Len(dov) |-> l.dov[i] \cap r.dov[i]]]
      [] OTHER -> Raised

(* The satisfaction-degree kernel (src.satisfaction_degree).  A distance   *)
(* is a rational with the denominator Denominator(vs); these operators     *)
(* give its numerator.                                                     *)

RECURSIVE Product(_, _)
Product(vs, i) == IF i = 0 THEN 1
                  ELSE (IF vs[i].max > 0 THEN vs[i].max ELSE 1) * Product(vs, i - 1)

\* the common denominator of the axis weights 1 / max
Denominator(vs) == Product(vs, Len(vs))

Abs(n) == IF n < 0 THEN 0 - n ELSE n

\* the signed deviation on one axis: 0 inside, minus the distance to the
\* nearest valid value outside
AxisDeviation(value, valid) ==
    IF value \in valid THEN 0
    ELSE 0 - SetMin({Abs(value - a) : a \in valid})

RECURSIVE WeightedSum(_, _, _, _)
WeightedSum(dov, state, vs, i) ==
    IF i = 0 THEN 0
    ELSE AxisDeviation(state[i], dov[i])
            * (Denominator(vs) \div (IF vs[i].max > 0 THEN vs[i].max ELSE 1))
         + WeightedSum(dov, state, vs, i - 1)

\* weighted_signed_distance(dov, state, variables); Err on an empty DoV
WeightedSignedDistance(dov, state, vs) ==
    IF \E i \in 1 .. Len(vs) : dov[i] = {} THEN Err
    ELSE WeightedSum(dov, state, vs, Len(vs))

\* the states of the ambient box, as tuples
RECURSIVE Box(_, _)
Box(vs, i) == IF i = 0 THEN {<<>>}
              ELSE {Append(b, v) : b \in Box(vs, i - 1), v \in 0 .. vs[i].max}

\* find_extreme_state(dov, max_values, positive_side)[1]: the distance of the
\* best corner of the ambient box (positive_side) or of the worst
FindExtremeState(dov, vs, positive_side) ==
    IF \E i \in 1 .. Len(vs) : dov[i] = {} THEN Err
    ELSE LET all == {WeightedSum(dov, b, vs, Len(vs)) : b \in Box(vs, Len(vs))}
         IN  IF positive_side THEN SetMax(all) ELSE SetMin(all)

\* wsd / ext_wsd, as a score
Quotient(wsd, ext_wsd) == (wsd * Scale) \div ext_wsd

\* the score AtomicFormula.evaluate writes: wsd / ext_wsd if ext_wsd > 0 else 1
AtomicScore(wsd, ext_wsd) ==
    IF wsd = Err \/ ext_wsd = Err THEN Err
    ELSE IF ext_wsd > 0 THEN Quotient(wsd, ext_wsd) ELSE Scale

-----------------------------------------------------------------------------
(* The result table and the evaluate methods.                              *)

Phi == Leaf("phi")
Psi == Leaf("psi")

WorklistKinds == {"AG", "EG", "AF", "EF", "AU", "EU"}
WeakKinds     == {"AW", "EW"}

\* for state in ks.stg.states: t[state][key] = val[state].  The loop stops at
\* the first state whose value raises, the states visited before it written;
\* the order of ks.stg.states is not fixed, so these are any states that do
\* not raise.  The set of outcomes.
ForStates(t, key, val) ==
    LET bad == {s \in States : val[s] = Err}
        Put(W) == [s \in States |->
                     IF s \in W THEN [t[s] EXCEPT ![key] = val[s]] ELSE t[s]]
    IN  IF bad = {} THEN {[fe |-> Put(States), ok |-> TRUE]}
        ELSE {[fe |-> Put(W), ok |-> FALSE] : W \in SUBSET (States \ bad)}

\* Boolean.evaluate
BooleanEvaluate(node, t) ==
    ForStates(t, Repr(node), [s \in States |-> IF node[2] THEN Scale ELSE 0 - Scale])

\* AtomicFormula.evaluate
AtomicEvaluate(node, t) ==
    LET d == YieldDov(node, Ambient(Variables), Variables)
        Wsd(s) == WeightedSignedDistance(d.dov, <<s>>, Variables)
    IN  IF ~d.ok THEN {[fe |-> t, ok |-> FALSE]}
        ELSE ForStates(t, Repr(node),
                [s \in States |->
                    AtomicScore(Wsd(s), FindExtremeState(d.dov, Variables, Wsd(s) >= 0))])

\* a conjunction that writes the score of its left operand
ConjunctionLeft(node, t) ==
    LET left == Repr(node[2])
        right == Repr(node[3])
    IN  ForStates(t, Repr(node), [s \in States |->
            IF t[s][left] \in {None, Err} \/ t[s][right] \in {None, Err} THEN Err
            ELSE t[s][left]])

\* Conjunction.evaluate
ConjunctionEvaluate(node, t) ==
    LET left == Repr(node[2])
        right == Repr(node[3])
    IN  ForStates(t, Repr(node), [s \in States |-> Min2(t[s][left], t[s][right])])

\* a disjunction that adds the scores of its operands
DisjunctionSum(node, t) ==
    LET left == Repr(node[2])
        right == Repr(node[3])
    IN  ForStates(t, Repr(node), [s \in States |->
            IF t[s][left] \in {None, Err} \/ t[s][right] \in {None, Err} THEN Err
            ELSE t[s][left] + t[s][right]])

\* Disjunction.evaluate
DisjunctionEvaluate(node, t) ==
    LET left == Repr(node[2])
        right == Repr(node[3])
    IN  ForStates(t, Repr(node), [s \in States |-> Max2(t[s][left], t[s][right])])

\* AX.evaluate
AXEvaluate(node, g, t) ==
    LET operand == Repr(node[2])
    IN  ForStates(t, Repr(node), [s \in States |-> ListMin([u \in g[s] |-> t[u][operand]])])

\* an EX that takes the min over the successors
EXEvaluateMin(node, g, t) ==
    LET operand == Repr(node[2])
    IN  ForStates(t, Repr(node), [s \in States |-> ListMin([u \in g[s] |-> t[u][operand]])])

\* EX.evaluate
EXEvaluate(node, g, t) ==
    LET operand == Repr(node[2])
    IN  ForStates(t, Repr(node), [s \in States |-> ListMax([u \in g[s] |-> t[u][operand]])])

\* an until that starts as the negated right operand
UntilInitNegated(node, t) ==
    LET right == Repr(node[3])
    IN  ForStates(t, Repr(node), [s \in States |->
            IF t[s][right] \in {None, Err} THEN t[s][right] ELSE 0 - t[s][right]])

\* AU.evaluate and EU.evaluate before the loop: the until starts as the right operand
UntilInit(node, t) ==
    LET right == Repr(node[3])
    IN  ForStates(t, Repr(node), [s \in States |-> t[s][right]])

\* the AG / EG node that AW / EW.evaluate builds
WeakGlobal(node) == IF Kind(node) = "AW" THEN AG(node[2]) ELSE EG(node[2])
\* the AU / EU node that AW / EW.evaluate builds
WeakUntil(node) == IF Kind(node) = "AW" THEN AU(node[2], node[3])
                   ELSE EU(node[2], node[3])

\* a reset of the entries of the left operand
WeakInitOperand(node, t) ==
    ForStates(t, Repr(node[2]), [s \in States |-> None])

\* AW.evaluate and EW.evaluate before ag.evaluate: ag's entries are unset
WeakInit(node, t) ==
    ForStates(t, Repr(WeakGlobal(node)), [s \in States |-> None])

\* a combination that takes the smaller of the two
WeakCombineMin(node, t) ==
    LET ag == Repr(<<IF Kind(node) = "AW" THEN "AG" ELSE "EG", node[2]>>)
        au == Repr(<<IF Kind(node) = "AW" THEN "AU" ELSE "EU", node[2], node[3]>>)
    IN  ForStates(t, Repr(node), [s \in States |-> Min2(t[s][ag], t[s][au])])

\* AW.evaluate and EW.evaluate after au.evaluate: the pointwise max
WeakCombine(node, t) ==
    LET ag == Repr(WeakGlobal(node))
        au == Repr(WeakUntil(node))
    IN  ForStates(t, Repr(node), [s \in States |-> Max2(t[s][ag], t[s][au])])

\* node.evaluate up to its first worklist loop, or all of it when it has none
Prologue(node, g, t) ==
    CASE Kind(node) = "Boolean" -> BooleanEvaluate(node, t)
      [] Kind(node) \in AtomicKinds -> AtomicEvaluate(node, t)
      [] Kind(node) = "Conjunction" -> ConjunctionEvaluate(node, t)
      [] Kind(node) = "Disjunction" -> DisjunctionEvaluate(node, t)
      [] Kind(node) = "AX" -> AXEvaluate(node, g, t)
      [] Kind(node) = "EX" -> EXEvaluate(node, g, t)
      [] Kind(node) \in {"AG", "EG", "AF", "EF"} -> {[fe |-> t, ok |-> TRUE]}
      [] Kind(node) \in {"AU", "EU"} -> UntilInit(node, t)
      [] Kind(node) \in WeakKinds -> WeakInit(node, t)

\* the aggregate taken over the node's own entries where they are set
GlobalFutureValueOwn(node, g, t, state) ==
    LET operand == Repr(node[2])
        own == [u \in g[state] |->
                  IF t[u][Repr(node)] # None THEN t[u][Repr(node)] ELSE t[u][operand]]
    IN  IF Kind(node) \in {"AG", "AF"} THEN ListMin(own) ELSE ListMax(own)

\* the value an AG / EG / AF / EF loop body proposes for state: the min (A) or
\* max (E) of the operand over the successors
GlobalFutureValue(node, g, t, state) ==
    LET operand == Repr(node[2])
    IN  IF Kind(node) \in {"AG", "AF"}
        THEN ListMin([u \in g[state] |-> t[u][operand]])
        ELSE ListMax([u \in g[state] |-> t[u][operand]])

\* the update condition of an AG / EG / AF / EF loop body: "T", "F" or "E"
GlobalFutureTest(node, t, state, value) ==
    LET current == t[state][Repr(node)]
    IN  IF value = Err THEN "E"
        ELSE IF current = None THEN "T"
        ELSE IF Kind(node) \in {"AG", "EG"} THEN Less(value, current)
        ELSE Greater(value, current)

\* an extend that leaves out the left operand
UntilValueNoLeft(node, g, t, state) ==
    IF Kind(node) = "AU"
    THEN ListMin([u \in g[state] |-> t[u][Repr(node)]])
    ELSE ListMax([u \in g[state] |-> t[u][Repr(node)]])

\* extend of an AU / EU loop body: min of the left operand at state and the
\* min (AU) or max (EU) of the until over the successors
UntilValue(node, g, t, state) ==
    LET until == Repr(node)
        nexts == IF Kind(node) = "AU"
                 THEN ListMin([u \in g[state] |-> t[u][until]])
                 ELSE ListMax([u \in g[state] |-> t[u][until]])
    IN  IF nexts = Err THEN Err ELSE Min2(t[state][Repr(node[2])], nexts)

\* the update condition with the comparison turned round
UntilTestLess(node, t, state, value) ==
    IF value = Err THEN "E" ELSE Less(value, t[state][Repr(node)])

\* an update whenever extend differs from the entry
UntilTestNotEqual(node, t, state, value) ==
    IF value = Err THEN "E"
    ELSE IF value = None \/ t[state][Repr(node)] = None THEN "E"
    ELSE IF value # t[state][Repr(node)] THEN "T" ELSE "F"

\* the update condition of an AU / EU loop body
UntilTest(node, t, state, value) ==
    IF value = Err THEN "E" ELSE Greater(value, t[state][Repr(node)])

LoopValue(node, g, t, state) ==
    IF Kind(node) \in {"AU", "EU"} THEN UntilValue(node, g, t, state)
    ELSE GlobalFutureValue(node, g, t, state)

LoopTest(node, t, state, value) ==
    IF Kind(node) \in {"AU", "EU"} THEN UntilTest(node, t, state, value)
    ELSE GlobalFutureTest(node, t, state, value)

-----------------------------------------------------------------------------
(* The driver walks its list of calls; each call is node.evaluate(ks,      *)
(* formulae_evaluations), after the entries of node were set to None when  *)
(* the call is fresh.                                                      *)

Unset(t, key) == [s \in States |-> [t[s] EXCEPT ![key] = None]]

Evaluate ==
    /\ pc = "idle"
    /\ ip <= Len(prog)
    /\ LET node == prog[ip].node
           t0   == IF prog[ip].fresh THEN Unset(fe, Repr(node)) ELSE fe
       IN  \E o \in Prologue(node, succs, t0) :
             /\ snap' = fe
             /\ fe' = o.fe
             /\ IF ~o.ok
                THEN pc' = "error" /\ UNCHANGED <<ip, self, caller, queue>>
                ELSE IF Kind(node) \in WorklistKinds
                THEN /\ pc' = "loop"
                     /\ self' = node
                     /\ queue' = States
                     /\ UNCHANGED <<ip, caller>>
                ELSE IF Kind(node) \in WeakKinds
                THEN /\ pc' = "loop"
                     /\ self' = WeakGlobal(node)
                     /\ caller' = node
                     /\ queue' = States
                     /\ UNCHANGED ip
                ELSE /\ ip' = ip + 1
                     /\ UNCHANGED <<pc, self, caller, queue>>
    /\ UNCHANGED <<succs, prog, tree, out>>

\* one iteration of the while loop: state = queue.pop() and the loop body
Pop ==
    /\ pc = "loop"
    /\ \E state \in queue :
         LET value == LoopValue(self, succs, fe, state)
             test  == LoopTest(self, fe, state, value)
         IN  /\ pc' = IF test = "E" THEN "error" ELSE "loop"
             /\ fe' = IF test = "T"
                      THEN [fe EXCEPT ![state][Repr(self)] = value]
                      ELSE fe
             /\ queue' = IF test = "T"
                         THEN (queue \ {state}) \cup Predecessors(succs, state)
                         ELSE queue \ {state}
    /\ UNCHANGED <<succs, prog, ip, snap, self, caller, tree, out>>

\* the worklist is empty: evaluate returns, to the driver or into AW / EW.evaluate
Return ==
    /\ pc = "loop"
    /\ queue = {}
    /\ IF caller = <<>>
       THEN /\ pc' = "idle"
            /\ ip' = ip + 1
            /\ self' = <<>>
            /\ UNCHANGED <<fe, caller>>
       ELSE IF self = WeakGlobal(caller)
       THEN \E o \in UntilInit(WeakUntil(caller), fe) :
              /\ fe' = o.fe
              /\ pc' = IF o.ok THEN "loop" ELSE "error"
              /\ self' = WeakUntil(caller)
              /\ UNCHANGED <<ip, caller>>
       ELSE \E o \in WeakCombine(caller, fe) :
              /\ fe' = o.fe
              /\ IF o.ok
                 THEN /\ pc' = "idle"
                      /\ ip' = ip + 1
                      /\ self' = <<>>
                      /\ caller' = <<>>
                 ELSE /\ pc' = "error"
                      /\ UNCHANGED <<ip, self, caller>>
    /\ queue' = IF caller # <<>> /\ self = WeakGlobal(caller) THEN States ELSE {}
    /\ UNCHANGED <<succs, prog, snap, tree, out>>

Next == Evaluate \/ Pop \/ Return

-----------------------------------------------------------------------------
(* Initial states: a Kripke structure without sinks, the scores of the     *)
(* operands, and the calls of the driver.                                  *)

\* the transition graph of the seed model: 0 -> 1, 1 -> 2, 2 -> 2
SeedGraph == [s \in States |-> IF s < MaxVal THEN {s + 1} ELSE {s}]
\* the cycle 0 -> 1 -> 2 -> 0
RingGraph == [s \in States |-> {(s + 1) % (MaxVal + 1)}]

\* how many transitions a graph has on top of the seed graph's or the cycle's
MaxExtra == 1

Edges(g) == {<<s, u>> \in States \X States : u \in g[s]}

\* every transition relation that holds one of bases and at most MaxExtra more
\* transitions; every state has a successor
GraphsOver(bases) ==
    {g \in [States -> (SUBSET States) \ {{}}] :
        \E base \in bases :
           /\ Edges(base) \subseteq Edges(g)
           /\ Cardinality(Edges(g) \ Edges(base)) <= MaxExtra}

Graphs == GraphsOver({SeedGraph, RingGraph})

\* the graphs in which every state is on a cycle with every other
LoopGraphs == GraphsOver({RingGraph})

\* the score levels an operand takes: false, undecided, true
Levels == {0 - Scale, 0, Scale}
\* the levels of the left operand of a binary node
LeftLevels == {0, Scale}
EndLevels == {0 - Scale, Scale}

Call(node, fresh) == [node |-> node, fresh |-> fresh]

\* how often the driver calls evaluate again on the table the call before left
Reruns == 1

\* node evaluated from unset entries, and then again on the table it left
Rerun(node) == <<Call(node, TRUE)>> \o [i \in 1 .. Reruns |-> Call(node, FALSE)]

UnaryPrograms ==
    {Rerun(n) : n \in {AG(Phi), EG(Phi), AF(Phi), EF(Phi)}}
    \cup {<<Call(AX(Phi), TRUE), Call(EX(Phi), TRUE)>>}

BinaryPrograms ==
    {Rerun(n) : n \in {AU(Phi, Psi), EU(Phi, Psi)}}
    \cup {<<Call(AW(Phi, Psi), TRUE)>>, <<Call(EW(Phi, Psi), TRUE)>>}

LatticePrograms ==
    {<<Call(Conjunction(Phi, Psi), TRUE), Call(Disjunction(Phi, Psi), TRUE)>>,
     <<Call(Boolean(TRUE), TRUE), Call(Boolean(FALSE), TRUE)>>}

XGe(k) == AtomicProposition("x", ">=", k)
XLe(k) == AtomicProposition("x", "<=", k)

\* atomic formulae over x with a valid value, and one that is not normalised
AtomicPrograms ==
    {<<Call(a, TRUE)>> :
        a \in {XGe(k) : k \in States} \cup {XLe(k) : k \in States}
               \cup {Union(XLe(0), XGe(MaxVal)), Intersection(XGe(1), XLe(1)),
                      Negation(XGe(1))}}

\* the keys node.evaluate reads and writes
RECURSIVE KeysOf(_)
KeysOf(node) ==
    {Repr(node)} \cup
    (IF Kind(node) \in UnaryKinds THEN {Repr(node[2])}
     ELSE IF Kind(node) \in WeakKinds
     THEN KeysOf(WeakGlobal(node)) \cup KeysOf(WeakUntil(node))
     ELSE IF Kind(node) \in BinaryKinds THEN {Repr(node[2]), Repr(node[3])}
     ELSE {})

\* the table of a run of calls p: the operands' scores, every other entry unset
Table(p, phi, psi) ==
    [s \in States |->
        [k \in UNION {KeysOf(p[i].node) : i \in 1 .. Len(p)} \cup {Repr(Phi), Repr(Psi)} |->
            IF k = Repr(Phi) THEN phi[s] ELSE IF k = Repr(Psi) THEN psi[s] ELSE None]]

\* the initial states with the graph drawn from graphs and the driver's calls
\* from unary (one operand), binary (two operands), lattice (no graph read)
\* and atomic (no operand); the
\* operand of a unary call has its scores in levels, the right operand of a
\* binary call in right
InitFrom(graphs, unary, binary, lattice, atomic, levels, right) ==
    /\ \/ /\ succs \in graphs
          /\ prog \in unary
          /\ \E phi \in [States -> levels] : fe = Table(prog, phi, phi)
       \/ /\ succs \in graphs
          /\ prog \in binary
          /\ \E phi \in [States -> LeftLevels], psi \in [States -> right] :
                fe = Table(prog, phi, psi)
       \/ /\ succs = SeedGraph
          /\ prog \in lattice
          /\ \E phi \in [States -> Levels], psi \in [States -> Levels] :
                fe = Table(prog, phi, psi)
       \/ /\ succs = SeedGraph
          /\ prog \in atomic
          /\ fe = Table(prog, [s \in States |-> Scale], [s \in States |-> Scale])
    /\ ip = 1
    /\ snap = fe
    /\ self = <<>>
    /\ caller = <<>>
    /\ queue = {}
    /\ pc = "idle"
    /\ tree = <<>>
    /\ out = <<>>

Init == InitFrom(Graphs, UnaryPrograms, BinaryPrograms, LatticePrograms, AtomicPrograms,
                Levels, Levels)

\* one call of each node that has a worklist loop
LoopInit ==
    InitFrom(LoopGraphs,
             {<<Call(n, TRUE)>> : n \in {AG(Phi), EG(Phi), AF(Phi), EF(Phi)}},
             {<<Call(n, TRUE)>> : n \in {AU(Phi, Psi), EU(Phi, Psi)}},
             {}, {}, LeftLevels, EndLevels)

Spec == Init /\ [][Next]_vars

-----------------------------------------------------------------------------
(* The seed model: the chain 0 -> 1 -> 2 -> 2 over the variable x, with    *)
(* the atomic scores of the documented kernel in the table.                *)

\* the documented atomic score: wsd / |ext_wsd| if ext_wsd # 0 else 1
SpecScore(wsd, ext_wsd) ==
    IF ext_wsd # 0 THEN Quotient(wsd, Abs(ext_wsd)) ELSE Scale

\* the documented score of the atomic formula f at state s
SeedScore(f, s) ==
    LET d == YieldDov(f, Ambient(Variables), Variables).dov
        wsd == WeightedSignedDistance(d, <<s>>, Variables)
    IN  SpecScore(wsd, FindExtremeState(d, Variables, wsd >= 0))

\* the atomic formulae of the seed scenarios that have a valid value
SeedAtoms == {XGe(0), XGe(1), XGe(2)}

\* x >= 3 has no valid value in 0 .. 2: every state violates it, by a degree the
\* kernel leaves open
Violated == (0 - Scale) .. (0 - 1)

SeedPrograms ==
    {<<Call(EF(XGe(2)), TRUE)>>, <<Call(AU(XGe(0), XGe(2)), TRUE)>>,
     <<Call(AG(XGe(1)), TRUE)>>, <<Call(AW(XGe(2), XGe(3)), TRUE)>>,
     <<Call(AG(XGe(2)), TRUE)>>, <<Call(EX(XGe(2)), TRUE)>>}

SeedTable(p, psi) ==
    [s \in States |->
        [k \in UNION {KeysOf(p[i].node) : i \in 1 .. Len(p)} |->
            IF k = Repr(XGe(3)) THEN psi[s]
            ELSE IF \E a \in SeedAtoms : k = Repr(a)
            THEN SeedScore(CHOOSE a \in SeedAtoms : k = Repr(a), s)
            ELSE None]]

SeedInit ==
    /\ succs = SeedGraph
    /\ prog \in SeedPrograms
    /\ \E psi \in [States -> Violated] : fe = SeedTable(prog, psi)
    /\ ip = 1
    /\ snap = fe
    /\ self = <<>>
    /\ caller = <<>>
    /\ queue = {}
    /\ pc = "idle"
    /\ tree = <<>>
    /\ out = <<>>

SeedSpec == SeedInit /\ [][Next]_vars

\* the program runs on: evaluate is single-threaded and never blocks, so a step
\* that can be taken is taken
FairSpec == LoopInit /\ [][Next]_vars /\ WF_vars(Next)

-----------------------------------------------------------------------------
(* Negation elimination.  The driver normalises the parsed root with       *)
(* eliminate_negation and lists the result with get_subformulae.           *)

\* the value of a method that returned nothing
NoneNode == <<"None">>

\* negate()
RECURSIVE Negate(_)
Negate(f) ==
    CASE Kind(f) = "AtomicProposition" ->
            IF f[3] = ">=" THEN AtomicProposition(f[2], "<=", f[4] - 1)
            ELSE IF f[3] = "<=" THEN AtomicProposition(f[2], ">=", f[4] + 1)
            ELSE NoneNode
      [] Kind(f) = "Negation" -> Negate(f[2])
      [] Kind(f) = "Union" -> Intersection(Negation(f[2]), Negation(f[3]))
      [] Kind(f) = "Intersection" -> Union(Negation(f[2]), Negation(f[3]))
      [] OTHER -> NoneNode

\* if isinstance(operand, Negation): operand = operand.negate()
Unwrap(operand) == IF Kind(operand) = "Negation" THEN Negate(operand) ELSE operand

\* eliminate_negation()
RECURSIVE EliminateNegation(_)
EliminateNegation(f) ==
    CASE Kind(f) = "Negation" ->
            IF Kind(f[2]) = "Negation" THEN EliminateNegation(f[2][2]) ELSE f
      [] Kind(f) \in UnaryKinds -> <<Kind(f), EliminateNegation(Unwrap(f[2]))>>
      [] Kind(f) \in BinaryKinds \cup {"Union", "Intersection"} ->
            <<Kind(f), EliminateNegation(Unwrap(f[2])), EliminateNegation(Unwrap(f[3]))>>
      [] OTHER -> f

\* a list with every node before its operands
RECURSIVE GetSubformulaeSelfFirst(_)
GetSubformulaeSelfFirst(f) ==
    CASE Kind(f) = "Negation" -> [ok |-> FALSE, list |-> <<>>]
      [] Kind(f) \in UnaryKinds ->
            LET sub == GetSubformulaeSelfFirst(f[2])
            IN  [ok |-> sub.ok, list |-> <<f>> \o sub.list]
      [] Kind(f) \in BinaryKinds ->
            LET sub_left == GetSubformulaeSelfFirst(f[2])
                sub_right == GetSubformulaeSelfFirst(f[3])
            IN  [ok |-> sub_left.ok /\ sub_right.ok,
                 list |-> <<f>> \o sub_left.list \o sub_right.list]
      [] OTHER -> [ok |-> TRUE, list |-> <<f>>]

\* get_subformulae(): [ok, list], ok FALSE when it raised
RECURSIVE GetSubformulae(_)
GetSubformulae(f) ==
    CASE Kind(f) = "Negation" -> [ok |-> FALSE, list |-> <<>>]
      [] Kind(f) \in UnaryKinds ->
            LET sub == GetSubformulae(f[2])
            IN  [ok |-> sub.ok, list |-> Append(sub.list, f)]
      [] Kind(f) \in BinaryKinds ->
            LET sub_left == GetSubformulae(f[2])
                sub_right == GetSubformulae(f[3])
            IN  [ok |-> sub_left.ok /\ sub_right.ok,
                 list |-> Append(sub_left.list \o sub_right.list, f)]
      [] OTHER -> [ok |-> TRUE, list |-> <<f>>]

\* root = root.eliminate_negation()
CallEliminateNegation ==
    /\ pc = "parsed"
    /\ out' = EliminateNegation(tree)
    /\ pc' = "normal"
    /\ UNCHANGED <<succs, fe, prog, ip, snap, self, caller, queue, tree>>

\* the driver's list of evaluate calls: root.get_subformulae()
CallGetSubformulae ==
    /\ pc = "normal"
    /\ LET sub == GetSubformulae(out)
       IN  IF sub.ok
           THEN /\ prog' = [i \in 1 .. Len(sub.list) |-> Call(sub.list[i], TRUE)]
                /\ pc' = "listed"
           ELSE /\ pc' = "error"
                /\ UNCHANGED prog
    /\ UNCHANGED <<succs, fe, ip, snap, self, caller, queue, tree, out>>

NormaliseNext == CallEliminateNegation \/ CallGetSubformulae

\* the atomic propositions of the parsed formulae
Atoms == {XGe(2), XLe(0)}

\* the most nodes of an atomic-level formula
MaxNodes == 5

\* the atomic-level formulae with n nodes
RECURSIVE AtomicOfSize(_)
AtomicOfSize(n) ==
    IF n = 1 THEN Atoms
    ELSE {Negation(f) : f \in AtomicOfSize(n - 1)}
         \cup UNION {{<<k, l, r>> : k \in {"Union", "Intersection"},
                                    l \in AtomicOfSize(m), r \in AtomicOfSize(n - 1 - m)} :
                     m \in 1 .. (n - 2)}

AtomicTrees == UNION {AtomicOfSize(n) : n \in 1 .. MaxNodes}

\* the atomic-level formulae placed with another one under a binary node
SmallTrees == UNION {AtomicOfSize(n) : n \in 1 .. 3}

\* the parsed roots: an atomic-level formula alone, under each state-level node,
\* and under a state-level node of a state-level node
Roots ==
    AtomicTrees
    \cup {<<k, f>> : k \in UnaryKinds, f \in AtomicTrees}
    \cup {<<k, l, r>> : k \in BinaryKinds, l \in SmallTrees, r \in SmallTrees}
    \cup {Conjunction(AX(f), Boolean(TRUE)) : f \in AtomicTrees}

NormaliseInit ==
    /\ tree \in Roots
    /\ out = <<>>
    /\ pc = "parsed"
    /\ succs = SeedGraph
    /\ fe = <<>>
    /\ snap = <<>>
    /\ prog = <<>>
    /\ ip = 1
    /\ self = <<>>
    /\ caller = <<>>
    /\ queue = {}

NormaliseSpec == NormaliseInit /\ [][NormaliseNext]_vars

\* a Negation node at some position of f
RECURSIVE HasNegation(_)
HasNegation(f) ==
    \/ Kind(f) = "Negation"
    \/ Kind(f) \in UnaryKinds /\ HasNegation(f[2])
    \/ Kind(f) \in BinaryKinds \cup {"Union", "Intersection"}
         /\ (HasNegation(f[2]) \/ HasNegation(f[3]))

\* the negation normal form of f (of its negation when neg): the rewrite rules
\* not(x >= k) -> x <= k - 1, not(x <= k) -> x >= k + 1, de Morgan, not not z -> z
RECURSIVE Nnf(_, _)
Nnf(f, neg) ==
    CASE Kind(f) = "AtomicProposition" -> IF neg THEN Negate(f) ELSE f
      [] Kind(f) = "Negation" -> Nnf(f[2], ~neg)
      [] Kind(f) = "Union" ->
            IF neg THEN Intersection(Nnf(f[2], TRUE), Nnf(f[3], TRUE))
            ELSE Union(Nnf(f[2], FALSE), Nnf(f[3], FALSE))
      [] Kind(f) = "Intersection" ->
            IF neg THEN Union(Nnf(f[2], TRUE), Nnf(f[3], TRUE))
            ELSE Intersection(Nnf(f[2], FALSE), Nnf(f[3], FALSE))
      [] Kind(f) \in UnaryKinds -> <<Kind(f), Nnf(f[2], FALSE)>>
      [] Kind(f) \in BinaryKinds -> <<Kind(f), Nnf(f[2], FALSE), Nnf(f[3], FALSE)>>
      [] OTHER -> f

-----------------------------------------------------------------------------
(* The worklist loop under one pop order, the one that pops the least      *)
(* state of the worklist each time.                                        *)

\* the while loop of node.evaluate on table t and worklist q; <<>> when it raises
RECURSIVE WorkLoop(_, _, _, _)
WorkLoop(node, g, t, q) ==
    IF q = {} THEN t
    ELSE LET state == SetMin(q)
             value == LoopValue(node, g, t, state)
             test  == LoopTest(node, t, state, value)
         IN  IF test = "E" THEN <<>>
             ELSE IF test = "T"
             THEN WorkLoop(node, g, [t EXCEPT ![state][Repr(node)] = value],
                           (q \ {state}) \cup Predecessors(g, state))
             ELSE WorkLoop(node, g, t, q \ {state})

\* node.evaluate of an AG / EG / AF / EF / AU / EU node on table t in that order
EvaluateInOrder(node, g, t) ==
    LET o == CHOOSE o \in Prologue(node, g, t) : TRUE
    IN  IF o.ok THEN WorkLoop(node, g, o.fe, States) ELSE <<>>

\* the table the driver's latest call started on
EntryTable ==
    IF prog[ip].fresh THEN Unset(snap, Repr(prog[ip].node)) ELSE snap

\* the worklist loop of self has run empty
LoopExit == pc = "loop" /\ queue = {}

-----------------------------------------------------------------------------
(* C1 -- order independence: when the worklist of AG, EG, AF, EF, AU or EU *)
(* evaluate has run empty, the table is the one the least-state-first pop  *)
(* order leaves on the same graph and the same entry table, whatever order *)
(* the states were popped in.                                              *)
C1_OrderIndependence ==
    (LoopExit /\ caller = <<>>) => fe = EvaluateInOrder(self, succs, EntryTable)

\* an until whose entry at some state was raised to a value that is not yet the
\* final one: the state is raised once more after its successor was
C1_Witness ==
    /\ pc = "loop" /\ caller = <<>> /\ Kind(self) \in {"AU", "EU"}
    /\ \E s \in States :
         /\ fe[s][Repr(self)] # fe[s][Repr(self[3])]
         /\ fe[s][Repr(self)] # EvaluateInOrder(self, succs, EntryTable)[s][Repr(self)]

-----------------------------------------------------------------------------
(* C2 -- termination: a worklist loop that was entered reaches an empty    *)
(* worklist, under every pop order.                                        *)
C2_Termination == (pc = "loop") ~> LoopExit

\* a worklist that has run empty after an entry was rewritten and the
\* predecessors of its state were put back
C2_Witness ==
    /\ LoopExit /\ caller = <<>>
    /\ \E s \in States :
         /\ fe[s][Repr(self)] # EntryTable[s][Repr(self)]
         /\ Kind(self) \in {"AU", "EU"} => fe[s][Repr(self)] # fe[s][Repr(self[3])]

-----------------------------------------------------------------------------
\* the driver's latest call has returned, and it was a call of a node of kind k
Returned(k) == pc = "idle" /\ ip > 1 /\ Kind(prog[ip - 1].node) = k

\* the node of the driver's latest call
LastNode == prog[ip - 1].node

(* C3 -- weak-until law: when AW(phi, psi).evaluate has returned, the      *)
(* entries of AG(phi) and A(phi)U(psi) are in the table and are what       *)
(* AG(phi).evaluate (from unset entries) and AU(phi, psi).evaluate leave   *)
(* on the table of the call, and the entry of AW at every state is the     *)
(* greater of the two; the same for EW with EG and EU.                     *)
C3_WeakUntilLaw ==
    (Returned("AW") \/ Returned("EW")) =>
        LET g  == WeakGlobal(LastNode)
            u  == WeakUntil(LastNode)
            gk == Repr(g)
            uk == Repr(u)
            alone_g == EvaluateInOrder(g, succs, Unset(snap, gk))
            alone_u == EvaluateInOrder(u, succs, snap)
        IN  \A s \in States :
              /\ fe[s][gk] \in ScoreRange /\ fe[s][gk] = alone_g[s][gk]
              /\ fe[s][uk] \in ScoreRange /\ fe[s][uk] = alone_u[s][uk]
              /\ fe[s][Repr(LastNode)] \in {fe[s][gk], fe[s][uk]}
              /\ fe[s][Repr(LastNode)] >= fe[s][gk]
              /\ fe[s][Repr(LastNode)] >= fe[s][uk]

\* AW has returned on a table where the global wins at one state and the until
\* at another
C3_Witness ==
    /\ Returned("AW")
    /\ \E s, u \in States :
         /\ fe[s][Repr(AG(Phi))] > fe[s][Repr(AU(Phi, Psi))]
         /\ fe[u][Repr(AG(Phi))] < fe[u][Repr(AU(Phi, Psi))]

-----------------------------------------------------------------------------
\* the nodes whose evaluate the driver's calls run
CalledNodes ==
    UNION {IF Kind(prog[i].node) \in WeakKinds
           THEN {prog[i].node, WeakGlobal(prog[i].node), WeakUntil(prog[i].node)}
           ELSE {prog[i].node} : i \in 1 .. Len(prog)}

\* the scores of the operands of node in the table
OperandScores(node) ==
    {fe[u][Repr(node[2])] : u \in States}
    \cup (IF Kind(node) \in BinaryKinds THEN {fe[u][Repr(node[3])] : u \in States} ELSE {})

(* C10 -- range: at every step of every evaluate, each score in the table  *)
(* lies in [-1, 1], the atomic ones at every state of the ambient box, and *)
(* each score written for a node with operands is the score of one of its  *)
(* operands at some state.                                                 *)
C10_Range ==
    /\ \A s \in States : \A k \in DOMAIN fe[s] :
          fe[s][k] # None => fe[s][k] \in ScoreRange
    /\ \A node \in CalledNodes :
          Kind(node) \in UnaryKinds \cup BinaryKinds =>
             \A s \in States :
                fe[s][Repr(node)] # None => fe[s][Repr(node)] \in OperandScores(node)

\* in the middle of an EU loop, a state holds a score that is neither its own
\* left nor its own right operand score: it came along an edge
C10_Witness ==
    /\ pc = "loop" /\ queue # {} /\ Kind(self) = "EU"
    /\ \E s \in States :
          fe[s][Repr(self)] \notin {fe[s][Repr(self[2])], fe[s][Repr(self[3])]}

-----------------------------------------------------------------------------
(* Seed scenarios.                                                         *)

\* the driver has returned from its call of node on the seed model
SeedDone(node) == Returned(Kind(node)) /\ LastNode = node /\ succs = SeedGraph

\* the entry of node at state s in the table
Score(s, node) == fe[s][Repr(node)]

(* C4 -- seed scenario S2: with the scores -1, -0.5, +1 of x >= 2 in the   *)
(* table, EF (x >= 2) evaluated from an unset table is +1 at every state.  *)
C4_SeedEF ==
    (SeedDone(EF(XGe(2))) /\ <<Score(0, XGe(2)), Score(1, XGe(2)), Score(2, XGe(2))>>
                               = <<0 - Scale, 0 - (Scale \div 2), Scale>>)
        => \A s \in States : Score(s, EF(XGe(2))) = Scale

\* EF (x >= 2) at state 0 is the score of x >= 2 at its successor 1
C4_Diverges ==
    SeedDone(EF(XGe(2))) /\ Score(0, EF(XGe(2))) = Score(1, XGe(2))
        /\ Score(1, XGe(2)) = 0 - (Scale \div 2)

(* C5 -- seed scenario S4: with x >= 0 at +1 everywhere and x >= 2 at -1,  *)
(* -0.5, +1, A (x >= 0) U (x >= 2) is +1 at every state when its worklist  *)
(* has run empty, whatever order the states were popped in.                *)
C5_SeedAU ==
    (LoopExit /\ self = AU(XGe(0), XGe(2)) /\ succs = SeedGraph
        /\ (\A s \in States : Score(s, XGe(0)) = Scale)
        /\ <<Score(0, XGe(2)), Score(1, XGe(2)), Score(2, XGe(2))>>
              = <<0 - Scale, 0 - (Scale \div 2), Scale>>)
        => \A s \in States : Score(s, AU(XGe(0), XGe(2))) = Scale

\* state 0 was popped before its successor was raised: it is still below +1 when
\* state 1 is already at +1, and is popped again
C5_Witness ==
    /\ pc = "loop" /\ self = AU(XGe(0), XGe(2)) /\ succs = SeedGraph
    /\ 0 \in queue /\ 1 \notin queue
    /\ Score(0, self) = 0 - (Scale \div 2) /\ Score(1, self) = Scale

(* C6 -- seed scenario S3: AG (x >= 1) evaluated from an unset table is    *)
(* the score of x >= 1 at state 0 itself, -1, at state 0 and +1 at states  *)
(* 1 and 2.                                                                *)
C6_SeedAG ==
    SeedDone(AG(XGe(1)))
        => /\ Score(0, AG(XGe(1))) = Score(0, XGe(1))
           /\ Score(0, AG(XGe(1))) = 0 - Scale
           /\ Score(1, AG(XGe(1))) = Scale
           /\ Score(2, AG(XGe(1))) = Scale

\* AG (x >= 1) is +1 at state 0, where x >= 1 is -1
C6_Diverges ==
    SeedDone(AG(XGe(1))) /\ Score(0, XGe(1)) = 0 - Scale
        /\ Score(0, AG(XGe(1))) = Scale

(* C7 -- seed scenario S5: AW (x >= 2, x >= 3) is at every state the      *)
(* score of AG (x >= 2), +1 at state 2 and strictly negative at states 1   *)
(* and 0.                                                                  *)
C7_SeedAW ==
    SeedDone(AW(XGe(2), XGe(3)))
        => /\ \A s \in States : Score(s, AW(XGe(2), XGe(3))) = Score(s, AG(XGe(2)))
           /\ Score(2, AW(XGe(2), XGe(3))) = Scale
           /\ Score(1, AW(XGe(2), XGe(3))) < 0
           /\ Score(0, AW(XGe(2), XGe(3))) < 0

\* AW (x >= 2, x >= 3) is +1 at state 1, where x >= 2 is violated
C7_Diverges ==
    SeedDone(AW(XGe(2), XGe(3))) /\ Score(1, XGe(2)) < 0
        /\ Score(1, AW(XGe(2), XGe(3))) = Scale

-----------------------------------------------------------------------------
(* Negation elimination.                                                   *)

(* C8 -- negation elimination is total: the tree eliminate_negation        *)
(* returns for a parsed root has no Negation node at any position.         *)
C8_NoNegationRemains ==
    pc \in {"normal", "listed", "error"} => ~HasNegation(out)

\* the root Negation of an atomic proposition is returned as it is, and the
\* get_subformulae that follows raises on it
C8_Diverges ==
    pc = "error" /\ tree = Negation(XGe(2)) /\ out = Negation(XGe(2))

(* C9 -- negation elimination computes the negation normal form: the       *)
(* operands eliminate_negation leaves under a state-level node are the     *)
(* normal forms of the parsed operands, a double negation cancelled.       *)
C9_NormalForm ==
    (pc = "normal" /\ Kind(tree) \in UnaryKinds \cup BinaryKinds) => out = Nnf(tree, FALSE)

\* the operand not not (x >= 2) of AG becomes x <= 1, and the operand
\* not (not (x >= 2) | (x <= 0)) becomes (x <= 1) & (x >= 1)
C9_Diverges ==
    /\ pc = "normal"
    /\ \/ tree = AG(Negation(Negation(XGe(2)))) /\ out = AG(XLe(1))
       \/ /\ tree = AG(Negation(Union(Negation(XGe(2)), XLe(0))))
          /\ out = AG(Intersection(XLe(1), XGe(1)))

-----------------------------------------------------------------------------
(* Atomic formulae.                                                        *)

\* the driver has returned from the evaluate of an atomic formula
AtomicDone == pc = "idle" /\ ip > 1 /\ Kind(LastNode) \in AtomicKinds

(* C11 -- atomic normalised score: AtomicFormula.evaluate writes           *)
(* wsd / |ext_wsd| at every state where ext_wsd # 0, for a negative        *)
(* ext_wsd as for a positive one, and 1 only where ext_wsd = 0; with       *)
(* max = 2 the scores of x >= 2 are -1, -0.5 and +1.                       *)
C11_AtomicScore ==
    AtomicDone => \A s \in States : Score(s, LastNode) = SeedScore(LastNode, s)

\* x >= 2 is +1 at the states 0 and 1, which are outside its domain of validity
\* and where wsd / |ext_wsd| is -1 and -0.5
C11_Diverges ==
    /\ AtomicDone /\ LastNode = XGe(2)
    /\ Score(0, XGe(2)) = Scale /\ Score(1, XGe(2)) = Scale
    /\ SeedScore(XGe(2), 0) = 0 - Scale
    /\ SeedScore(XGe(2), 1) = 0 - (Scale \div 2)

-----------------------------------------------------------------------------
(* An atomic-level formula and its structural negation over two variables. *)

\* ks.stg.variables of the two-variable model
Variables2 == <<[name |-> "x", max |-> MaxVal], [name |-> "y", max |-> MaxVal]>>

\* AtomicFormula.evaluate over the states of the ambient box of vs:
\* [ok, score], ok FALSE when it raised
AtomicScores(node, vs) ==
    LET d == YieldDov(node, Ambient(vs), vs)
        Wsd(b) == WeightedSignedDistance(d.dov, b, vs)
        score == [b \in Box(vs, Len(vs)) |->
                    AtomicScore(Wsd(b), FindExtremeState(d.dov, vs, Wsd(b) >= 0))]
    IN  IF ~d.ok THEN [ok |-> FALSE, score |-> <<>>]
        ELSE [ok |-> \A b \in Box(vs, Len(vs)) : score[b] # Err, score |-> score]

\* the structural negation of the parsed formula: negate(), then eliminate_negation()
CallNegate ==
    /\ pc = "parsed"
    /\ out' = EliminateNegation(Negate(tree))
    /\ pc' = "negated"
    /\ UNCHANGED <<succs, fe, prog, ip, snap, self, caller, queue, tree>>

\* evaluate of the formula and of its structural negation
EvaluateBoth ==
    /\ pc = "negated"
    /\ LET a == AtomicScores(tree, Variables2)
           b == AtomicScores(out, Variables2)
       IN  IF a.ok /\ b.ok
           THEN /\ fe' = [s \in Box(Variables2, 2) |->
                            (Repr(tree) :> a.score[s]) @@ (Repr(out) :> b.score[s])]
                /\ pc' = "scored"
           ELSE /\ pc' = "error"
                /\ UNCHANGED fe
    /\ UNCHANGED <<succs, prog, ip, snap, self, caller, queue, tree, out>>

DualNext == CallNegate \/ EvaluateBoth

\* the atomic propositions over x and y
DualAtoms ==
    {AtomicProposition(v, op, k) : v \in {"x", "y"}, op \in {">=", "<="}, k \in 0 .. MaxVal}

\* how many Union / Intersection nodes lie on a branch of a parsed formula
DualDepth == 1

RECURSIVE DualTrees(_)
DualTrees(d) ==
    IF d = 0 THEN DualAtoms
    ELSE DualTrees(d - 1)
         \cup {<<k, l, r>> : k \in {"Union", "Intersection"},
                             l \in DualTrees(d - 1), r \in DualTrees(d - 1)}

DualInit ==
    /\ tree \in DualTrees(DualDepth)
    /\ out = <<>>
    /\ pc = "parsed"
    /\ succs = SeedGraph
    /\ fe = <<>>
    /\ snap = <<>>
    /\ prog = <<>>
    /\ ip = 1
    /\ self = <<>>
    /\ caller = <<>>
    /\ queue = {}

DualSpec == DualInit /\ [][DualNext]_vars

\* the domain of validity of f in the two-variable model
Dov2(f) == YieldDov(f, Ambient(Variables2), Variables2).dov

\* state b is inside the domain of validity dov
InDov(b, dov) == \A i \in 1 .. Len(dov) : b[i] \in dov[i]

Sign(v) == IF v > 0 THEN 1 ELSE IF v < 0 THEN 0 - 1 ELSE 0

(* C12 -- dual sign under negation: at every state of the ambient box      *)
(* where the score of a formula is not 0, the score of its structural      *)
(* negation has the opposite sign; every state is inside the domain of     *)
(* validity of exactly one of the two.                                     *)
C12_DualSign ==
    pc = "scored" =>
        \A b \in Box(Variables2, 2) :
            /\ fe[b][Repr(tree)] # 0 =>
                  Sign(fe[b][Repr(tree)]) = 0 - Sign(fe[b][Repr(out)])
            /\ InDov(b, Dov2(tree)) # InDov(b, Dov2(out))

\* the state (2, 2) is inside the domain of validity of (x >= 2) & (y >= 2) and
\* of its negation (x <= 1) | (y <= 1), and both score +1 there
C12_Diverges ==
    /\ pc = "scored"
    /\ tree = Intersection(AtomicProposition("x", ">=", 2), AtomicProposition("y", ">=", 2))
    /\ out = Union(AtomicProposition("x", "<=", 1), AtomicProposition("y", "<=", 1))
    /\ InDov(<<2, 2>>, Dov2(tree)) /\ InDov(<<2, 2>>, Dov2(out))
    /\ fe[<<2, 2>>][Repr(tree)] = Scale /\ fe[<<2, 2>>][Repr(out)] = Scale

-----------------------------------------------------------------------------
(* Evaluating again on the table a call left.                              *)

\* the driver is inside, or has returned from, a call that did not unset the
\* entries of its node
InRerun == ip <= Len(prog) /\ pc # "idle" /\ ~prog[ip].fresh
RerunDone == pc = "idle" /\ ip > 1 /\ ~prog[ip - 1].fresh

(* C13 -- fixed point: AG, EG, AF, EF, AU or EU evaluate called again on   *)
(* the table its first call left, the entries not unset, never raises,     *)
(* writes nothing at all for AG, EG, AF and EF (each iteration only takes  *)
(* a state off the worklist), and returns with every entry of the table as *)
(* it was before the call, whatever the pop order.                         *)
C13_FixedPoint ==
    /\ InRerun => pc # "error"
    /\ (InRerun /\ Kind(prog[ip].node) \in {"AG", "EG", "AF", "EF"}) => fe = snap
    /\ RerunDone => fe = snap

\* a second AU call went back to the right operand and climbed again to the
\* table of the first call
C13_Witness ==
    /\ RerunDone
    /\ Kind(LastNode) = "AU"
    /\ fe = snap
    /\ \E s \in States : fe[s][Repr(LastNode)] # fe[s][Repr(LastNode[3])]

-----------------------------------------------------------------------------
(* Raising the scores of the operands.                                     *)

\* node.evaluate of a temporal node on table t, worklists popped least state first
EvaluateWhole(node, g, t) ==
    IF Kind(node) \in WorklistKinds THEN EvaluateInOrder(node, g, t)
    ELSE IF Kind(node) \in WeakKinds
    THEN LET t0 == (CHOOSE o \in WeakInit(node, t) : TRUE).fe
             t1 == WorkLoop(WeakGlobal(node), g, t0, States)
             t2 == (CHOOSE o \in UntilInit(WeakUntil(node), t1) : TRUE).fe
             t3 == WorkLoop(WeakUntil(node), g, t2, States)
         IN  (CHOOSE o \in WeakCombine(node, t3) : TRUE).fe
    ELSE (CHOOSE o \in Prologue(node, g, t) : TRUE).fe

\* the tables that differ from t in the operands of node only, which score at
\* least as high as in t at every state
RaisedOperands(node, t) ==
    LET Above(key, levels) ==
            {f \in [States -> levels] : \A s \in States : f[s] >= t[s][key]}
        left == Repr(node[2])
    IN  IF Kind(node) \in UnaryKinds
        THEN {[s \in States |-> [t[s] EXCEPT ![left] = phi[s]]] :
                 phi \in Above(left, Levels)}
        ELSE {[s \in States |-> [t[s] EXCEPT ![left] = phi[s], ![Repr(node[3])] = psi[s]]] :
                 phi \in Above(left, LeftLevels), psi \in Above(Repr(node[3]), Levels)}

\* one call of each temporal node, on the seed graph and the graphs around the
\* cycle and on every table of operand scores
RaiseInit ==
    InitFrom(LoopGraphs \cup {SeedGraph},
             {<<Call(n, TRUE)>> : n \in {AX(Phi), EX(Phi), AG(Phi), EG(Phi), AF(Phi), EF(Phi)}},
             {<<Call(n, TRUE)>> : n \in {AU(Phi, Psi), EU(Phi, Psi), AW(Phi, Psi), EW(Phi, Psi)}},
             {}, {}, Levels, Levels)

RaiseSpec == RaiseInit /\ [][Next]_vars

\* the driver's latest call unset the entries of a temporal node, and has returned
TemporalDone ==
    pc = "idle" /\ ip > 1 /\ prog[ip - 1].fresh
    /\ Kind(LastNode) \in {"AX", "EX", "AG", "EG", "AF", "EF", "AU", "EU", "AW", "EW"}

(* C14 -- temporal monotonicity: when evaluate of AX, EX, AG, EG, AF, EF,  *)
(* AU, EU, AW or EW has returned, its score at every state is at most the  *)
(* score the same evaluate leaves at that state on the same graph when the *)
(* operands score at least as high at every state.                         *)
C14_Monotone ==
    TemporalDone =>
        \A r \in RaisedOperands(LastNode, snap) :
            LET raised == EvaluateWhole(LastNode, succs, r)
            IN  \A s \in States : fe[s][Repr(LastNode)] <= raised[s][Repr(LastNode)]

\* an until has returned whose score at some state rises when both operands
\* are raised to the top
C14_Witness ==
    /\ TemporalDone
    /\ Kind(LastNode) = "AU"
    /\ LET top == [s \in States |->
                      [snap[s] EXCEPT ![Repr(Phi)] = Scale, ![Repr(Psi)] = Scale]]
       IN  /\ top \in RaisedOperands(LastNode, snap)
           /\ \E s \in States :
                 fe[s][Repr(LastNode)] < EvaluateWhole(LastNode, succs, top)[s][Repr(LastNode)]

-----------------------------------------------------------------------------
(* The direction of the writes of a worklist loop.                         *)

(* C15 -- monotone update direction: an iteration of the worklist loop of  *)
(* a node that changes an entry of the node which held a real score makes  *)
(* it strictly smaller for AG and EG and strictly greater for AF, EF, AU   *)
(* and EU, and never unsets it.                                            *)
C15_UpdateDirection ==
    [][(pc = "loop" /\ self' = self) =>
          \A s \in States :
             LET current == fe[s][Repr(self)]
                 written == fe'[s][Repr(self)]
             IN  (current # None /\ written # current) =>
                    /\ written # None
                    /\ Kind(self) \in {"AG", "EG"} => written < current
                    /\ Kind(self) \in {"AF", "EF", "AU", "EU"} => written > current]_vars

\* the loop of an until has raised an entry above the right operand it started as
C15_Witness ==
    /\ pc = "loop" /\ Kind(self) \in {"AU", "EU"}
    /\ queue # {}
    /\ \E s \in States : fe[s][Repr(self)] > fe[s][Repr(self[3])]

-----------------------------------------------------------------------------
(* The driver: get_subformulae of a formula without Negation, then         *)
(* evaluate of every listed node in turn on a table without scores.        *)

\* formulae_evaluations before the first evaluate: no state has a score
StartDriver ==
    /\ pc = "listed"
    /\ fe' = [s \in States |->
                [k \in UNION {KeysOf(prog[i].node) : i \in 1 .. Len(prog)} |-> None]]
    /\ snap' = fe'
    /\ ip' = 1
    /\ pc' = "idle"
    /\ UNCHANGED <<succs, prog, self, caller, queue, tree, out>>

DriverNext ==
    CallEliminateNegation \/ CallGetSubformulae \/ StartDriver \/ Evaluate \/ Pop \/ Return

\* the leaves of the driver's formulae: an atomic proposition, an atomic-level
\* formula with operands, a Boolean
DriverLeaves == {XGe(2), Union(XLe(0), XGe(MaxVal)), Boolean(FALSE)}

\* the most nodes of a formula of the driver, a leaf counted as one
DriverNodes == 4

\* the formulae without Negation that have n nodes
RECURSIVE TreesOfSize(_)
TreesOfSize(n) ==
    IF n = 1 THEN DriverLeaves
    ELSE {<<k, f>> : k \in UnaryKinds, f \in TreesOfSize(n - 1)}
         \cup UNION {{<<k, l, r>> : k \in BinaryKinds,
                                    l \in TreesOfSize(m), r \in TreesOfSize(n - 1 - m)} :
                     m \in 1 .. (n - 2)}

DriverInit ==
    /\ tree \in UNION {TreesOfSize(n) : n \in 1 .. DriverNodes}
    /\ succs = RingGraph
    /\ out = <<>>
    /\ pc = "parsed"
    /\ fe = <<>>
    /\ snap = <<>>
    /\ prog = <<>>
    /\ ip = 1
    /\ self = <<>>
    /\ caller = <<>>
    /\ queue = {}

DriverSpec == DriverInit /\ [][DriverNext]_vars

\* the operands whose scores node.evaluate reads
Operands(node) ==
    IF Kind(node) \in UnaryKinds THEN {node[2]}
    ELSE IF Kind(node) \in BinaryKinds THEN {node[2], node[3]}
    ELSE {}

\* the nodes of f; an atomic formula is a leaf
RECURSIVE Subformulae(_)
Subformulae(f) == {f} \cup UNION {Subformulae(o) : o \in Operands(f)}

(* C16 -- dependency order: the list get_subformulae returns for a formula *)
(* without Negation holds every node of the formula (atomic formulae are   *)
(* leaves), every operand of a listed node at a smaller index than the     *)
(* node, and the root last; a driver that evaluates the list from first to *)
(* last on a table without scores never sees an evaluate raise, and when   *)
(* it starts the evaluate of a node every operand of the node has a real   *)
(* score at every state.                                                   *)
C16_DependencyOrder ==
    /\ pc \in {"listed", "idle", "loop"} =>
          /\ prog[Len(prog)].node = out
          /\ Subformulae(out) = {prog[i].node : i \in 1 .. Len(prog)}
          /\ \A i \in 1 .. Len(prog) :
                \A o \in Operands(prog[i].node) :
                   \E j \in 1 .. (i - 1) : prog[j].node = o
    /\ (pc = "idle" /\ ip <= Len(prog)) =>
          \A o \in Operands(prog[ip].node) :
             \A s \in States : fe[s][Repr(o)] \in ScoreRange
    /\ pc # "error"

\* the driver is about to evaluate a root with two operands that have operands
\* themselves
C16_Witness ==
    /\ pc = "idle" /\ ip = Len(prog) /\ Len(prog) = DriverNodes
    /\ Kind(out) \in BinaryKinds
    /\ Kind(out[2]) \in UnaryKinds
    /\ \A s \in States : fe[s][Repr(out[2])] \in ScoreRange /\ fe[s][Repr(out[3])] \in ScoreRange

-----------------------------------------------------------------------------
(* Operands without a score.                                               *)

\* what an operand entry holds: no score, or a score
MissingLevels == {None, 0 - Scale, Scale}
MissingLeftLevels == {None, Scale}

\* one call of each node that reads the scores of operands, on tables in which
\* operand entries may be unset
MissingInit ==
    /\ \/ /\ succs \in Graphs
          /\ prog \in {<<Call(n, TRUE)>> :
                          n \in {AX(Phi), EX(Phi), AG(Phi), EG(Phi), AF(Phi), EF(Phi)}}
          /\ \E phi \in [States -> MissingLevels] : fe = Table(prog, phi, phi)
       \/ /\ succs \in Graphs
          /\ prog \in {<<Call(n, TRUE)>> : n \in {AU(Phi, Psi), EU(Phi, Psi)}}
          /\ \E phi \in [States -> MissingLeftLevels], psi \in [States -> MissingLevels] :
                fe = Table(prog, phi, psi)
       \/ /\ succs = SeedGraph
          /\ prog \in {<<Call(n, TRUE)>> : n \in {Conjunction(Phi, Psi), Disjunction(Phi, Psi)}}
          /\ \E phi \in [States -> MissingLevels], psi \in [States -> MissingLevels] :
                fe = Table(prog, phi, psi)
    /\ ip = 1
    /\ snap = fe
    /\ self = <<>>
    /\ caller = <<>>
    /\ queue = {}
    /\ pc = "idle"
    /\ tree = <<>>
    /\ out = <<>>

MissingSpec == MissingInit /\ [][Next]_vars

\* the states at which node.evaluate reads the scores of its operands: the
\* successors of the states for AX, EX, AG, EG, AF and EF, every state otherwise
ReadStates(node, g) ==
    IF Kind(node) \in UnaryKinds THEN UNION {g[s] : s \in States} ELSE States

\* node.evaluate on graph g and table t reads an operand entry that is unset
MissingRead(node, g, t) ==
    \E o \in Operands(node) : \E s \in ReadStates(node, g) : t[s][Repr(o)] = None

(* C17 -- missing operand score aborts: evaluate of Conjunction,           *)
(* Disjunction, AX, EX, AG, EG, AF, EF, AU or EU that reads an unset       *)
(* operand score never returns normally, and a call that has returned left *)
(* a real score for its node at every state.                               *)
C17_MissingAborts ==
    (pc = "idle" /\ ip > 1) =>
        /\ ~MissingRead(LastNode, succs, snap)
        /\ \A s \in States : fe[s][Repr(LastNode)] \in ScoreRange

\* AX.evaluate has returned on the graph 0 -> 1 -> 2 -> 2 with the operand unset
\* at state 2: states 1 and 2 have the one successor 2, and their AX entry is
\* the unset value
C17_Diverges ==
    /\ Returned("AX")
    /\ succs = SeedGraph
    /\ snap[2][Repr(Phi)] = None
    /\ fe[1][Repr(LastNode)] = None /\ fe[2][Repr(LastNode)] = None
    /\ fe[0][Repr(LastNode)] = snap[1][Repr(Phi)]

-----------------------------------------------------------------------------
(* Graphs with a state that has no successor.                              *)

HasSink(g) == \E s \in States : g[s] = {}

\* every transition relation in which some state has no successor
SinkGraphs == {g \in [States -> SUBSET States] : HasSink(g)}

\* the scores of a right operand: true at the last state only
SinkRight == {[s \in States |-> IF s = MaxVal THEN Scale ELSE 0 - Scale]}

\* one call of each temporal node on a graph with a sink, or on the seed graph
\* or the cycle
SinkInit ==
    /\ succs \in SinkGraphs \cup {SeedGraph, RingGraph}
    /\ \/ /\ prog \in {<<Call(n, TRUE)>> :
                          n \in {AX(Phi), EX(Phi), AG(Phi), EG(Phi), AF(Phi), EF(Phi)}}
          /\ \E phi \in [States -> LeftLevels] : fe = Table(prog, phi, phi)
       \/ /\ prog \in {<<Call(n, TRUE)>> :
                          n \in {AU(Phi, Psi), EU(Phi, Psi), AW(Phi, Psi), EW(Phi, Psi)}}
          /\ \E phi \in [States -> LeftLevels], psi \in SinkRight : fe = Table(prog, phi, psi)
    /\ ip = 1
    /\ snap = fe
    /\ self = <<>>
    /\ caller = <<>>
    /\ queue = {}
    /\ pc = "idle"
    /\ tree = <<>>
    /\ out = <<>>

\* every call is made, and a loop that can take a state off its worklist does so
SinkSpec == SinkInit /\ [][Next]_vars /\ WF_vars(Next)

(* C18 -- sink state aborts: on a graph in which some state has no         *)
(* successor, evaluate of AX, EX, AG, EG, AF, EF, AU, EU, AW and EW never  *)
(* returns normally and ends by raising, whatever the pop order.           *)
C18_SinkAborts ==
    /\ [](HasSink(succs) => ~(pc = "idle" /\ ip > 1))
    /\ HasSink(succs) ~> (pc = "error")

\* a worklist loop raised at a state without successors after it had written
\* scores at other states
C18_Witness ==
    /\ pc = "error" /\ HasSink(succs)
    /\ self # <<>> /\ Kind(self) \in {"AU", "EU"}
    /\ \E s \in States : succs[s] # {} /\ fe[s][Repr(self)] # fe[s][Repr(self[3])]

-----------------------------------------------------------------------------
(* AX and EX.                                                              *)

\* AX and then EX of one operand on every graph and every table of operand
\* scores, and the scenarios of the seed model
NextInit ==
    \/ InitFrom(Graphs, {<<Call(AX(Phi), TRUE), Call(EX(Phi), TRUE)>>}, {}, {}, {},
                Levels, Levels)
    \/ SeedInit

NextSpec == NextInit /\ [][Next]_vars

\* the scores of node's operand at the successors of s
NextScores(node, s) == {fe[u][Repr(node[2])] : u \in succs[s]}

(* C19 -- next duality: when AX.evaluate has returned, the score of AX at  *)
(* every state is the minimum of the operand's scores over the successors  *)
(* of the state; when EX.evaluate has returned it is the maximum; so AX of *)
(* an operand is at most EX of it at every state; on the seed model        *)
(* EX (x >= 2) is +1 at state 1 and the score -0.5 of x >= 2 at state 1 at *)
(* state 0.                                                                *)
C19_NextDuality ==
    /\ Returned("AX") =>
          \A s \in States : Score(s, LastNode) = SetMin(NextScores(LastNode, s))
    /\ Returned("EX") =>
          \A s \in States :
             /\ Score(s, LastNode) = SetMax(NextScores(LastNode, s))
             /\ Len(prog) > 1 => Score(s, AX(LastNode[2])) <= Score(s, LastNode)
    /\ SeedDone(EX(XGe(2))) =>
          /\ Score(1, EX(XGe(2))) = Scale
          /\ Score(0, EX(XGe(2))) = Score(1, XGe(2))
          /\ Score(0, EX(XGe(2))) = 0 - (Scale \div 2)

\* AX and EX of one operand have returned, and AX is below EX at a state with
\* two successors
C19_Witness ==
    /\ Returned("EX") /\ Len(prog) > 1
    /\ \E s \in States :
          /\ Cardinality(succs[s]) > 1
          /\ Score(s, AX(LastNode[2])) < Score(s, LastNode)

-----------------------------------------------------------------------------
(* Conjunction, Disjunction and Boolean.                                   *)

\* a third operand
Chi == Leaf("chi")

\* the calls that evaluate node k (Conjunction or Disjunction) on an operand
\* twice, on two operands in both orders, and on three operands bracketed both ways
LatticeCalls(k) ==
    [i \in 1 .. 7 |->
        Call(<< <<k, Phi, Phi>>, <<k, Phi, Psi>>, <<k, Psi, Phi>>, <<k, Psi, Chi>>,
                <<k, <<k, Phi, Psi>>, Chi>>, <<k, Phi, <<k, Psi, Chi>>>>,
                Boolean(k = "Conjunction") >>[i], TRUE)]

LatticeInit ==
    /\ prog \in {LatticeCalls("Conjunction"), LatticeCalls("Disjunction")}
    /\ \E phi \in [States -> Levels], psi \in [States -> Levels], chi \in Levels :
          fe = [s \in States |->
                  [k \in UNION {KeysOf(prog[i].node) : i \in 1 .. Len(prog)} |->
                      IF k = Repr(Phi) THEN phi[s]
                      ELSE IF k = Repr(Psi) THEN psi[s]
                      ELSE IF k = Repr(Chi) THEN chi
                      ELSE None]]
    /\ succs = SeedGraph
    /\ ip = 1
    /\ snap = fe
    /\ self = <<>>
    /\ caller = <<>>
    /\ queue = {}
    /\ pc = "idle"
    /\ tree = <<>>
    /\ out = <<>>

LatticeSpec == LatticeInit /\ [][Evaluate]_vars

(* C20 -- lattice laws: Conjunction.evaluate writes the min and            *)
(* Disjunction.evaluate the max of the scores of the two operands at every *)
(* state, so both are idempotent, commutative and associative in the       *)
(* scores; Boolean(true) scores +1 and Boolean(false) -1 at every state.   *)
C20_LatticeLaws ==
    (pc = "idle" /\ ip = Len(prog) + 1) =>
        LET k == Kind(prog[1].node)
        IN  \A s \in States :
              /\ k = "Conjunction" =>
                    /\ Score(s, <<k, Phi, Psi>>) = SetMin({Score(s, Phi), Score(s, Psi)})
                    /\ Score(s, <<k, Psi, Chi>>) = SetMin({Score(s, Psi), Score(s, Chi)})
                    /\ Score(s, Boolean(TRUE)) = Scale
              /\ k = "Disjunction" =>
                    /\ Score(s, <<k, Phi, Psi>>) = SetMax({Score(s, Phi), Score(s, Psi)})
                    /\ Score(s, <<k, Psi, Chi>>) = SetMax({Score(s, Psi), Score(s, Chi)})
                    /\ Score(s, Boolean(FALSE)) = 0 - Scale
              /\ Score(s, <<k, Phi, Phi>>) = Score(s, Phi)
              /\ Score(s, <<k, Phi, Psi>>) = Score(s, <<k, Psi, Phi>>)
              /\ Score(s, <<k, <<k, Phi, Psi>>, Chi>>) = Score(s, <<k, Phi, <<k, Psi, Chi>>>>)

\* the calls have returned on a table where the three operands score
\* differently at a state, the left one highest
C20_Witness ==
    /\ pc = "idle" /\ ip = Len(prog) + 1
    /\ \E s \in States :
          /\ Score(s, Phi) > Score(s, Psi) /\ Score(s, Psi) > Score(s, Chi)
          /\ Score(s, prog[5].node) = Score(s, prog[6].node)
          /\ Score(s, prog[5].node) \in {Score(s, Phi), Score(s, Chi)}

-----------------------------------------------------------------------------
(* AG, EG, AF and EF read the operand at the successors.                   *)

\* what AX (for AG and AF) or EX (for EG and EF) of the operand of node is at
\* state s: the min or max of the operand's scores over the successors of s
NextValue(node, s) ==
    IF Kind(node) \in {"AG", "AF"} THEN SetMin(NextScores(node, s))
    ELSE SetMax(NextScores(node, s))

(* C21 -- global / future collapse to next: in the loop of AG, EG, AF or   *)
(* EF an entry of the node is either still unset, and then its state is in *)
(* the worklist, or it is the min (AG, AF) or max (EG, EF) of the          *)
(* operand's scores over the direct successors of its state; an iteration  *)
(* changes the table only by writing that value into the unset entry of    *)
(* the popped state; when evaluate has returned every entry holds it.      *)
C21_CollapseToNext ==
    /\ [](/\ (pc = "loop" /\ Kind(self) \in {"AG", "EG", "AF", "EF"}) =>
                \A s \in States :
                   IF Score(s, self) = None THEN s \in queue
                   ELSE Score(s, self) = NextValue(self, s)
          /\ (pc = "idle" /\ ip > 1 /\ Kind(LastNode) \in {"AG", "EG", "AF", "EF"}) =>
                \A s \in States : Score(s, LastNode) = NextValue(LastNode, s))
    /\ [][(pc = "loop" /\ Kind(self) \in {"AG", "EG", "AF", "EF"} /\ self' = self /\ fe' # fe) =>
             \E s \in queue :
                /\ Score(s, self) = None
                /\ fe' = [fe EXCEPT ![s][Repr(self)] = NextValue(self, s)]]_vars

\* AG has returned with a score at a state that is above the operand's score two
\* transitions away
C21_Witness ==
    /\ Returned("AG")
    /\ \E s \in States : \E t \in succs[s] : \E u \in succs[t] :
          Score(u, LastNode[2]) < Score(s, LastNode)

-----------------------------------------------------------------------------
(* What AU and EU compute.                                                 *)

\* one call of AU and of EU on the seed graph and the graphs around the cycle
UntilInitial ==
    InitFrom(LoopGraphs \cup {SeedGraph}, {},
             {<<Call(n, TRUE)>> : n \in {AU(Phi, Psi), EU(Phi, Psi)}},
             {}, {}, Levels, Levels)

UntilSpec == UntilInitial /\ [][Next]_vars

\* max(psi(s), min(phi(s), aggregate of X over the successors of s)): the
\* aggregate is min for AU and max for EU
UntilStep(node, X, s) ==
    LET nexts == IF Kind(node) = "AU" THEN SetMin({X[t] : t \in succs[s]})
                 ELSE SetMax({X[t] : t \in succs[s]})
    IN  SetMax({Score(s, node[3]), SetMin({Score(s, node[2]), nexts})})

\* the assignments X >= psi with X(s) = UntilStep(X)(s) at every state
UntilSolutions(node) ==
    {X \in [States -> ScoreRange] :
        \A s \in States : X[s] >= Score(s, node[3]) /\ X[s] = UntilStep(node, X, s)}

\* the most transitions of a path
MaxPath == 3

\* the paths of the graph that start at s, as sequences of states
PathsFrom(s) ==
    {p \in UNION {[1 .. n -> States] : n \in 1 .. (MaxPath + 1)} :
        p[1] = s /\ \A i \in 1 .. (Len(p) - 1) : p[i + 1] \in succs[p[i]]}

\* min(psi(sk), phi(s0), ..., phi(s(k-1))) of the path p = s0 ... sk
PathValue(node, p) ==
    SetMin({Score(p[Len(p)], node[3])} \cup {Score(p[i], node[2]) : i \in 1 .. (Len(p) - 1)})

\* the loop of an AU or EU node is running
InUntil == pc = "loop" /\ Kind(self) \in {"AU", "EU"}

-----------------------------------------------------------------------------
(* The states that are not in the worklist of AU or EU.                    *)

-----------------------------------------------------------------------------
(* The entries evaluate writes.                                            *)

\* one call of every kind of node; AW and EW are called after AG and EG of the
\* same left operand
FrameInit ==
    InitFrom(LoopGraphs \cup {SeedGraph},
             {<<Call(n, TRUE)>> : n \in {AX(Phi), EX(Phi), AG(Phi), EG(Phi), AF(Phi), EF(Phi)}},
             {<<Call(AG(Phi), TRUE), Call(AW(Phi, Psi), TRUE)>>,
              <<Call(EG(Phi), TRUE), Call(EW(Phi, Psi), TRUE)>>,
              <<Call(AU(Phi, Psi), TRUE)>>, <<Call(EU(Phi, Psi), TRUE)>>},
             LatticePrograms, AtomicPrograms, Levels, EndLevels)

FrameSpec == FrameInit /\ [][Next]_vars

\* the keys node.evaluate assigns to
Written(node) ==
    IF Kind(node) \in WeakKinds
    THEN {Repr(node), Repr(WeakGlobal(node)), Repr(WeakUntil(node))}
    ELSE {Repr(node)}

(* C24 -- frame of evaluate: while a call of evaluate runs and after it    *)
(* has returned or raised, every entry under a key other than the node's   *)
(* own is as it was when the call started; AW and EW also write the keys   *)
(* of AG / EG of the left operand and of AU / EU of both; when AG / EG of  *)
(* the left operand was evaluated before, AW / EW unset its entries before *)
(* the loop of AG / EG starts, and they are again what they were when AW / *)
(* EW returns.                                                             *)
C24_Frame ==
    /\ [](/\ (pc # "idle" \/ ip > 1) =>
                LET called == IF pc = "idle" THEN LastNode ELSE prog[ip].node
                IN  \A s \in States : \A k \in (DOMAIN fe[s]) \ Written(called) :
                       fe[s][k] = snap[s][k]
          /\ ((Returned("AW") \/ Returned("EW")) /\ ip = 3) =>
                \A s \in States :
                   /\ snap[s][Repr(WeakGlobal(LastNode))] \in ScoreRange
                   /\ Score(s, WeakGlobal(LastNode)) = snap[s][Repr(WeakGlobal(LastNode))])
    /\ [][(pc = "idle" /\ pc' = "loop" /\ caller' # <<>>) =>
             \A s \in States : fe'[s][Repr(self')] = None]_vars

\* AW has returned after AG of its left operand had been evaluated: the entries
\* of AG are what they were, and AW is above AG at some state
C24_Witness ==
    /\ Returned("AW") /\ ip = 3
    /\ prog[1].node = WeakGlobal(LastNode)
    /\ \A s \in States : Score(s, prog[1].node) = snap[s][Repr(prog[1].node)]
    /\ \E s \in States : Score(s, LastNode) > Score(s, prog[1].node)

====
